---- MODULE Spec2Model ----
(***************************************************************************)
(* Model of tools/ip_planner.py: prefix-length arithmetic, overlap         *)
(* detection, sibling-subnet packing and the two VNet search strategies    *)
(* (build_plan and build_plan_with_rollover).                              *)
(*                                                                         *)
(* TLC integers are 32-bit signed, Python integers are unbounded.  Every   *)
(* IPv4 address and every address count is therefore kept as a pair        *)
(* <<hi, lo>> whose value is hi * 2^16 + lo with lo in 0 .. 2^16 - 1, so   *)
(* that 172.16.0.0 (> 2^31) and 2^32 itself are represented exactly.       *)
(***************************************************************************)
EXTENDS Integers, Sequences, FiniteSets, TLC

VARIABLES
    pc,                 \* "idle" | "build_plan" | "rollover" | "done"
    fn,                 \* the function the caller invoked
    args,               \* its arguments
    prefix_len,         \* build_plan: loop variable (line 200)
    gen,                \* build_plan_with_rollover: state of the generator
    vnet,               \* build_plan_with_rollover: loop variable (line 294)
    candidates_tried,   \* build_plan_with_rollover: line 292
    last_error,         \* build_plan_with_rollover: line 291
    attempts,           \* build_plan: sizes tried so far, in order
    result              \* value returned or exception raised

vars == <<pc, fn, args, prefix_len, gen, vnet, candidates_tried, last_error,
          attempts, result>>

-----------------------------------------------------------------------------
(* Program constants *)

MaxPrefixLen == 32
ReservedIps == 5
MinOctetVnetPrefix == 24
LastThirdOctet == 255

(* Bounds of the model *)

MaxExp == 33        \* address counts up to 2^MaxExp are tried
MaxUsed == 2        \* length of the used-prefix lists

-----------------------------------------------------------------------------
(* Wide integers: <<hi, lo>> = hi * 2^16 + lo *)

Half == 2^16

W(n) == <<n \div Half, n % Half>>

WAdd(a, k) == <<a[1] + ((a[2] + k) \div Half), (a[2] + k) % Half>>

WPred(a) == IF a[2] > 0 THEN <<a[1], a[2] - 1>> ELSE <<a[1] - 1, Half - 1>>

WLess(a, b) == a[1] < b[1] \/ (a[1] = b[1] /\ a[2] < b[2])

WLeq(a, b) == a = b \/ WLess(a, b)

WMax(a, b) == IF WLess(a, b) THEN b ELSE a

WMin(a, b) == IF WLess(a, b) THEN a ELSE b

\* 1 << k
WShl1(k) == IF k < 16 THEN <<0, 2^k>> ELSE <<2^(k - 16), 0>>

RECURSIVE BitLength(_)
BitLength(x) == IF x = 0 THEN 0 ELSE 1 + BitLength(x \div 2)

\* int.bit_length() of a non-negative wide integer
WBitLength(a) == IF a[1] > 0 THEN 16 + BitLength(a[1]) ELSE BitLength(a[2])

-----------------------------------------------------------------------------
(* Results *)

NoResult == [kind |-> "None"]

Value(v) == [kind |-> "Value", value |-> v]

Raise(exc, site) == [kind |-> "Error", exc |-> exc, site |-> site]

IsError(r) == r.kind = "Error"

-----------------------------------------------------------------------------
(* PrefixMath *)

_next_power_of_two_NoPred(n) ==
    IF WLeq(n, <<0, 0>>)
    THEN Raise("ValueError", "IP count must be a positive integer")
    ELSE Value(WShl1(WBitLength(n)))

_next_power_of_two(n) ==
    IF WLeq(n, <<0, 0>>)
    THEN Raise("ValueError", "IP count must be a positive integer")
    ELSE Value(WShl1(WBitLength(WPred(n))))

prefix_len_for_total_addresses(total_addresses) ==
    LET p2 == _next_power_of_two(total_addresses) IN
    IF IsError(p2) THEN p2
    ELSE LET total == p2.value
             plen == MaxPrefixLen - (WBitLength(total) - 1) IN
         IF WLess(WShl1(MaxPrefixLen), total)
         THEN Raise("ValueError", "Requested range is too large for IPv4")
         ELSE IF plen < 0 \/ plen > MaxPrefixLen
              THEN Raise("ValueError", "Invalid prefix computed")
              ELSE Value(plen)

subnet_prefix_len_for_usable_ips(usable_ips) ==
    LET required_total == WAdd(usable_ips, ReservedIps) IN
    prefix_len_for_total_addresses(required_total)

-----------------------------------------------------------------------------
(* IPv4Network: [addr |-> <<hi, lo>>, prefixlen |-> 0 .. 32] *)

Net(a, b, c, d, len) == [addr |-> <<a * 256 + b, c * 256 + d>>, prefixlen |-> len]

\* int(net.hostmask)
Hostmask(len) ==
    IF len >= 16 THEN <<0, 2^(32 - len) - 1>> ELSE <<2^(16 - len) - 1, Half - 1>>

\* ip & int(netmask)
MaskAddr(ip, len) ==
    IF len >= 16
    THEN <<ip[1], ip[2] - (ip[2] % 2^(32 - len))>>
    ELSE <<ip[1] - (ip[1] % 2^(16 - len)), 0>>

network_address(net) == net.addr

\* network_address | hostmask (the address is aligned, so | is +)
broadcast_address(net) ==
    <<net.addr[1] + Hostmask(net.prefixlen)[1], net.addr[2] + Hostmask(net.prefixlen)[2]>>

\* `ip in net`: ip & netmask == network_address
Contains(net, ip) == MaskAddr(ip, net.prefixlen) = net.addr

overlaps_OneWay(a, b) ==
    Contains(b, network_address(a)) \/ Contains(b, broadcast_address(a))

\* IPv4Network.overlaps, as called on line 136
overlaps(a, b) ==
    \/ Contains(b, network_address(a))
    \/ Contains(b, broadcast_address(a))
    \/ Contains(a, network_address(b))
    \/ Contains(a, broadcast_address(b))

\* a.subnet_of(b), as called on line 315
subnet_of(a, b) ==
    /\ WLeq(network_address(b), network_address(a))
    /\ WLeq(broadcast_address(a), broadcast_address(b))

RECURSIVE overlaps_any_from(_, _, _)
overlaps_any_from(candidate, used, i) ==
    IF i > Len(used) THEN FALSE
    ELSE IF overlaps(candidate, used[i]) THEN TRUE
    ELSE overlaps_any_from(candidate, used, i + 1)

overlaps_any(candidate, used) == overlaps_any_from(candidate, used, 1)

(* net.subnets(new_prefix=np): a /32 yields itself whatever np is; otherwise *)
(* np outside net.prefixlen .. 32 raises ValueError, and the sub-ranges are  *)
(* yielded in increasing address order.                                      *)
SubnetsRaises(net, np) ==
    net.prefixlen # MaxPrefixLen /\ (np < net.prefixlen \/ np > MaxPrefixLen)

SubnetsCount(net, np) ==
    IF net.prefixlen = MaxPrefixLen THEN 1 ELSE 2^(np - net.prefixlen)

SubnetAt(net, np, k) ==
    IF net.prefixlen = MaxPrefixLen THEN net
    ELSE IF np >= 16
         THEN [addr |-> WAdd(net.addr, k * 2^(32 - np)), prefixlen |-> np]
         ELSE [addr |-> <<net.addr[1] + k * 2^(16 - np), net.addr[2]>>, prefixlen |-> np]

\* The scan `for cand in net.subnets(new_prefix=np): if not overlaps_any(cand,
\* used)`: the index of the first element, among those numbered lo .. hi, that
\* overlaps no member of used; -1 when there is none.  The interval is scanned
\* left half first, which visits the elements in the order of the loop and
\* keeps the evaluation depth logarithmic.
RECURSIVE FirstFreeIn(_, _, _, _, _)
FirstFreeIn(net, np, used, lo, hi) ==
    IF lo > hi THEN -1
    ELSE IF lo = hi
    THEN IF ~overlaps_any(SubnetAt(net, np, lo), used) THEN lo ELSE -1
    ELSE LET mid == (lo + hi) \div 2
             left == FirstFreeIn(net, np, used, lo, mid) IN
         IF left >= 0 THEN left ELSE FirstFreeIn(net, np, used, mid + 1, hi)

FirstFreeIndex(net, np, used) ==
    FirstFreeIn(net, np, used, 0, SubnetsCount(net, np) - 1)

-----------------------------------------------------------------------------
(* BoundedRangeAllocator and SiblingSubnetPacker *)

first_free_subnet_NoTest(base, plen, used) ==
    IF plen < base.prefixlen
    THEN Raise("ValueError", "Requested prefix is larger than base")
    ELSE IF SubnetsRaises(base, plen) THEN Raise("ValueError", "subnets")
    ELSE Value(SubnetAt(base, plen, 0))

first_free_subnet(base, plen, used) ==
    IF plen < base.prefixlen
    THEN Raise("ValueError", "Requested prefix is larger than base")
    ELSE IF SubnetsRaises(base, plen) THEN Raise("ValueError", "subnets")
    ELSE LET k == FirstFreeIndex(base, plen, used) IN
         IF k >= 0 THEN Value(SubnetAt(base, plen, k))
         ELSE Raise("RuntimeError", "No free networks found inside base range")

Min(a, b) == IF a <= b THEN a ELSE b
Max(a, b) == IF a >= b THEN a ELSE b

\* the second range is taken without the overlap test
allocate_two_subnets_NoTest(v, webapp_prefix_len, pe_prefix_len) ==
    IF webapp_prefix_len < v.prefixlen \/ pe_prefix_len < v.prefixlen
    THEN Raise("ValueError", "Subnet prefixes must be within the VNet prefix")
    ELSE LET first_prefix == Min(webapp_prefix_len, pe_prefix_len)
             second_prefix == Max(webapp_prefix_len, pe_prefix_len) IN
         IF SubnetsRaises(v, first_prefix) \/ SubnetsRaises(v, second_prefix)
         THEN Raise("ValueError", "subnets")
         ELSE LET first == SubnetAt(v, first_prefix, 0)
                  second == SubnetAt(v, second_prefix, 0) IN
              IF first_prefix = webapp_prefix_len
              THEN Value(<<first, second>>)
              ELSE Value(<<second, first>>)

\* the pair is returned as (first, second) whatever the labels
allocate_two_subnets_NoRelabel(v, webapp_prefix_len, pe_prefix_len) ==
    IF webapp_prefix_len < v.prefixlen \/ pe_prefix_len < v.prefixlen
    THEN Raise("ValueError", "Subnet prefixes must be within the VNet prefix")
    ELSE LET first_prefix == Min(webapp_prefix_len, pe_prefix_len)
             second_prefix == Max(webapp_prefix_len, pe_prefix_len) IN
         IF SubnetsRaises(v, first_prefix) \/ SubnetsRaises(v, second_prefix)
         THEN Raise("ValueError", "subnets")
         ELSE LET first == SubnetAt(v, first_prefix, 0)
                  k == FirstFreeIndex(v, second_prefix, <<first>>) IN
              IF k < 0
              THEN Raise("RuntimeError", "Unable to allocate two subnets")
              ELSE Value(<<first, SubnetAt(v, second_prefix, k)>>)

\* the second range is the last sub-range of the VNet, not the first free one
allocate_two_subnets_LastFree(v, webapp_prefix_len, pe_prefix_len) ==
    IF webapp_prefix_len < v.prefixlen \/ pe_prefix_len < v.prefixlen
    THEN Raise("ValueError", "Subnet prefixes must be within the VNet prefix")
    ELSE LET first_prefix == Min(webapp_prefix_len, pe_prefix_len)
             second_prefix == Max(webapp_prefix_len, pe_prefix_len) IN
         IF SubnetsRaises(v, first_prefix) \/ SubnetsRaises(v, second_prefix)
         THEN Raise("ValueError", "subnets")
         ELSE LET first == SubnetAt(v, first_prefix, 0)
                  second == SubnetAt(v, second_prefix, SubnetsCount(v, second_prefix) - 1) IN
              IF overlaps_any(second, <<first>>)
              THEN Raise("RuntimeError", "Unable to allocate two subnets")
              ELSE IF first_prefix = webapp_prefix_len
                   THEN Value(<<first, second>>)
                   ELSE Value(<<second, first>>)

allocate_two_subnets(v, webapp_prefix_len, pe_prefix_len) ==
    IF webapp_prefix_len < v.prefixlen \/ pe_prefix_len < v.prefixlen
    THEN Raise("ValueError", "Subnet prefixes must be within the VNet prefix")
    ELSE LET first_prefix == Min(webapp_prefix_len, pe_prefix_len)
             second_prefix == Max(webapp_prefix_len, pe_prefix_len) IN
         IF SubnetsRaises(v, first_prefix) \/ SubnetsRaises(v, second_prefix)
         THEN Raise("ValueError", "subnets")
         ELSE LET first == SubnetAt(v, first_prefix, 0)
                  k == FirstFreeIndex(v, second_prefix, <<first>>) IN
              IF k < 0
              THEN Raise("RuntimeError", "Unable to allocate two subnets")
              ELSE LET second == SubnetAt(v, second_prefix, k) IN
                   IF first_prefix = webapp_prefix_len
                   THEN Value(<<first, second>>)
                   ELSE Value(<<second, first>>)

Plan(v, webapp, pe) ==
    [kind |-> "Plan", vnet |-> v, webapp_subnet |-> webapp,
     private_endpoint_subnet |-> pe]

-----------------------------------------------------------------------------
(* OctetRolloverAllocator *)

FirstOctet(net) == net.addr[1] \div 256
SecondOctet(net) == net.addr[1] % 256

ten_slash8 == Net(10, 0, 0, 0, 8)
one_seventy_two_slash12 == Net(172, 16, 0, 0, 12)

_pool_for_octet_search_AnyLen(start_base) ==
    IF Contains(ten_slash8, network_address(start_base))
    THEN Value([pool |-> ten_slash8, first |-> 0, stop |-> 256])
    ELSE IF Contains(one_seventy_two_slash12, network_address(start_base))
    THEN Value([pool |-> one_seventy_two_slash12, first |-> 16, stop |-> 32])
    ELSE Raise("ValueError", "Octet-based search supports only 10.x.0.0/16 or 172.16-31.0.0/16")

\* (pool_network, allowed_second_octets); the range is [first, stop)
_pool_for_octet_search(start_base) ==
    IF start_base.prefixlen # 16
    THEN Raise("ValueError", "Octet-based search requires --base to be a /16")
    ELSE IF Contains(ten_slash8, network_address(start_base))
    THEN Value([pool |-> ten_slash8, first |-> 0, stop |-> 256])
    ELSE IF Contains(one_seventy_two_slash12, network_address(start_base))
    THEN Value([pool |-> one_seventy_two_slash12, first |-> 16, stop |-> 32])
    ELSE Raise("ValueError", "Octet-based search supports only 10.x.0.0/16 or 172.16-31.0.0/16")

(* The generator _iter_third_then_second_octet_vnets.  Its state is "new"   *)
(* (created, body not yet run), "running" (suspended at a yield, having     *)
(* last yielded sub-range idx of bucket (second, third)) or "finished".     *)
GenNew == [state |-> "new", second |-> 0, third |-> 0, idx |-> 0]
GenFinished == [state |-> "finished", second |-> 0, third |-> 0, idx |-> 0]
GenAt(s, t, i) == [state |-> "running", second |-> s, third |-> t, idx |-> i]

Bucket(a, s, t) == Net(a, s, t, 0, 24)

Yield(a, g) ==
    [kind |-> "Yield", gen |-> g,
     cand |-> IF args.vnet_prefix_len = MinOctetVnetPrefix
              THEN Bucket(a, g.second, g.third)
              ELSE SubnetAt(Bucket(a, g.second, g.third), args.vnet_prefix_len, g.idx)]

StopIteration == [kind |-> "StopIteration"]

\* entering bucket (s, t): line 275-280
EnterBucket(a, s, t) ==
    IF args.vnet_prefix_len # MinOctetVnetPrefix
       /\ SubnetsRaises(Bucket(a, s, t), args.vnet_prefix_len)
    THEN Raise("ValueError", "subnets")
    ELSE Yield(a, GenAt(s, t, 0))

GenStart_FromZero ==
    LET start_base == args.start_base
        pl == _pool_for_octet_search(start_base) IN
    IF args.vnet_prefix_len < MinOctetVnetPrefix
    THEN Raise("ValueError", "Octet-based search requires --vnet-prefix to be /24 or smaller")
    ELSE IF IsError(pl) THEN pl
    ELSE IF ~(0 <= args.start_third_octet /\ args.start_third_octet <= LastThirdOctet)
    THEN Raise("ValueError", "start_third_octet must be between 0 and 255")
    ELSE EnterBucket(FirstOctet(start_base), SecondOctet(start_base), 0)

\* lines 256-270, then the first bucket
GenStart ==
    LET start_base == args.start_base
        pl == _pool_for_octet_search(start_base) IN
    IF args.vnet_prefix_len < MinOctetVnetPrefix
    THEN Raise("ValueError", "Octet-based search requires --vnet-prefix to be /24 or smaller")
    ELSE IF IsError(pl) THEN pl
    ELSE IF ~(0 <= args.start_third_octet /\ args.start_third_octet <= LastThirdOctet)
    THEN Raise("ValueError", "start_third_octet must be between 0 and 255")
    ELSE IF ~(SecondOctet(start_base) >= pl.value.first /\ SecondOctet(start_base) < pl.value.stop)
    THEN Raise("ValueError", "--base is not within the allowed pool")
    ELSE EnterBucket(FirstOctet(start_base), SecondOctet(start_base), args.start_third_octet)

\* the second octet runs to 255 whatever the pool
GenResume_PastPool(g) ==
    LET a == FirstOctet(args.start_base) IN
    IF args.vnet_prefix_len # MinOctetVnetPrefix
       /\ g.idx + 1 < SubnetsCount(Bucket(a, g.second, g.third), args.vnet_prefix_len)
    THEN Yield(a, GenAt(g.second, g.third, g.idx + 1))
    ELSE IF g.third + 1 <= LastThirdOctet THEN EnterBucket(a, g.second, g.third + 1)
    ELSE IF g.second + 1 <= 255 THEN EnterBucket(a, g.second + 1, 0)
    ELSE StopIteration

\* resuming after a yield: lines 272-280
GenResume(g) ==
    LET a == FirstOctet(args.start_base)
        stop == _pool_for_octet_search(args.start_base).value.stop IN
    IF args.vnet_prefix_len # MinOctetVnetPrefix
       /\ g.idx + 1 < SubnetsCount(Bucket(a, g.second, g.third), args.vnet_prefix_len)
    THEN Yield(a, GenAt(g.second, g.third, g.idx + 1))
    ELSE IF g.third + 1 <= LastThirdOctet THEN EnterBucket(a, g.second, g.third + 1)
    ELSE IF g.second + 1 < stop THEN EnterBucket(a, g.second + 1, 0)
    ELSE StopIteration

\* next(generator)
GenNext(g) ==
    IF g.state = "new" THEN GenStart
    ELSE IF g.state = "running" THEN GenResume(g)
    ELSE StopIteration

RECURSIVE AnyCovers(_, _, _)
AnyCovers(pool, used, i) ==
    IF i > Len(used) THEN FALSE
    ELSE IF subnet_of(pool, used[i]) THEN TRUE
    ELSE AnyCovers(pool, used, i + 1)

RolloverExhausted_EqualOnly(used, start_base, err) ==
    LET pool == _pool_for_octet_search(start_base).value.pool IN
    IF \E i \in 1 .. Len(used) : used[i] = pool
    THEN Raise("RuntimeError", "an existing VNet address space covers all of the pool")
    ELSE IF err # NoResult
    THEN Raise("RuntimeError", "Unable to find a non-overlapping VNet; last error")
    ELSE Raise("RuntimeError", "Unable to find a non-overlapping VNet")

\* lines 313-329: the loop ended without a Plan
RolloverExhausted(used, start_base, err) ==
    LET pool == _pool_for_octet_search(start_base).value.pool IN
    IF AnyCovers(pool, used, 1)
    THEN Raise("RuntimeError", "an existing VNet address space covers all of the pool")
    ELSE IF err # NoResult
    THEN Raise("RuntimeError", "Unable to find a non-overlapping VNet; last error")
    ELSE Raise("RuntimeError", "Unable to find a non-overlapping VNet")

-----------------------------------------------------------------------------
(* Inputs the calls are made with *)

\* lists of at most n members of S
SeqsUpTo(S, n) == UNION {[1 .. k -> S] : k \in 0 .. n}

\* address counts: small ones, and every power of two with its neighbours
TotalSamples ==
    {W(n) : n \in -2 .. 40}
    \cup UNION {{WPred(WShl1(k)), WShl1(k), WAdd(WShl1(k), 1)} : k \in 0 .. MaxExp}

\* usable-host counts: small ones, and those whose sum with 5 is near a power of two
UsableSamples ==
    {W(n) : n \in -7 .. 40}
    \cup UNION {{WAdd(WShl1(k), d - 6) : d \in 0 .. 2} : k \in 3 .. MaxExp}

\* ranges of several sizes inside 10.0.0.0/22, and ranges around the two pools
NetSamples ==
    {SubnetAt(Net(10, 0, 0, 0, 22), len, k) : len \in 22 .. 25, k \in 0 .. 7}
    \cup {Net(10, 0, 0, 255, 32), Net(10, 0, 1, 0, 32), Net(10, 0, 0, 254, 31),
          Net(0, 0, 0, 0, 0), Net(128, 0, 0, 0, 1), Net(10, 0, 0, 0, 8),
          Net(10, 0, 0, 0, 16), Net(172, 16, 0, 0, 12), Net(172, 31, 255, 0, 24),
          Net(172, 32, 0, 0, 16), Net(255, 255, 255, 255, 32)}

PlanBases == {Net(10, 0, 0, 0, 22), Net(172, 16, 0, 0, 16)}

PlanVnetPrefixes == 21 .. 25

SubnetPrefixes == {23, 24, 26, 27}

PlanUsed ==
    {Net(10, 0, 0, 0, 23), Net(10, 0, 2, 128, 25), Net(10, 0, 0, 0, 8),
     Net(172, 16, 0, 0, 24), Net(172, 16, 0, 0, 12)}

PackVnets ==
    {Net(10, 0, 0, 0, 22), Net(10, 0, 2, 0, 23), Net(10, 0, 3, 0, 24),
     Net(10, 0, 3, 128, 25), Net(10, 0, 0, 254, 31), Net(10, 0, 0, 255, 32)}

PackPrefixes == {22, 23, 24, 25, 26, 27, 32, 33}

RollArgs(used, start_base, vp, wp, t) ==
    [used_prefixes |-> used, start_base |-> start_base, vnet_prefix_len |-> vp,
     webapp_prefix_len |-> wp[1], pe_prefix_len |-> wp[2], start_third_octet |-> t]

\* searches that start next to the upper end of a pool, and rejected arguments
RollCallsNearEnd ==
    {RollArgs(used, start_base, vp, wp, t) :
        used \in SeqsUpTo({Net(10, 0, 0, 0, 8), Net(172, 16, 0, 0, 12),
                           Net(172, 0, 0, 0, 8), Net(172, 31, 254, 0, 23),
                           Net(172, 31, 254, 128, 25)}, MaxUsed),
        start_base \in {Net(10, 255, 0, 0, 16), Net(172, 31, 0, 0, 16),
                        Net(10, 0, 0, 0, 8), Net(172, 32, 0, 0, 16)},
        vp \in {23, 24, 25},
        wp \in {<<27, 27>>, <<26, 27>>, <<27, 26>>, <<24, 27>>, <<27, 24>>},
        t \in {254, 255, 256}}

\* searches that cross from one second octet to the next
RollCallsAcross ==
    {RollArgs(used, start_base, vp, wp, 255) :
        used \in SeqsUpTo({Net(10, 254, 255, 0, 24), Net(10, 255, 0, 0, 25),
                           Net(172, 30, 255, 0, 24)}, MaxUsed),
        start_base \in {Net(10, 254, 0, 0, 16), Net(172, 30, 0, 0, 16)},
        vp \in {24, 25},
        wp \in {<<27, 27>>, <<27, 24>>}}

\* the defaults of the command line: 172.16.0.0/16 from third octet 1
RollCallsDefault ==
    {RollArgs(used, Net(172, 16, 0, 0, 16), 24, <<27, 27>>, 1) :
        used \in SeqsUpTo({Net(172, 16, 1, 0, 24), Net(172, 16, 2, 0, 23),
                           Net(172, 16, 0, 0, 24)}, MaxUsed)}

RollCalls == RollCallsNearEnd \cup RollCallsAcross \cup RollCallsDefault

-----------------------------------------------------------------------------
(* The calls *)

NoNet == [addr |-> <<0, 0>>, prefixlen |-> -1]

Init ==
    /\ pc = "idle"
    /\ fn = "none"
    /\ args = [none |-> TRUE]
    /\ prefix_len = 0
    /\ gen = GenNew
    /\ vnet = NoNet
    /\ candidates_tried = 0
    /\ last_error = NoResult
    /\ attempts = <<>>
    /\ result = NoResult

\* A function without a loop: the call and its return are one step.
CallPrefixLenForTotalAddresses ==
    /\ pc = "idle"
    /\ \E n \in TotalSamples :
        /\ pc' = "done"
        /\ fn' = "prefix_len_for_total_addresses"
        /\ args' = [total_addresses |-> n]
        /\ result' = prefix_len_for_total_addresses(n)
        /\ UNCHANGED <<prefix_len, gen, vnet, candidates_tried, last_error, attempts>>

CallSubnetPrefixLenForUsableIps ==
    /\ pc = "idle"
    /\ \E n \in UsableSamples :
        /\ pc' = "done"
        /\ fn' = "subnet_prefix_len_for_usable_ips"
        /\ args' = [usable_ips |-> n]
        /\ result' = subnet_prefix_len_for_usable_ips(n)
        /\ UNCHANGED <<prefix_len, gen, vnet, candidates_tried, last_error, attempts>>

CallOverlaps ==
    /\ pc = "idle"
    /\ \E a \in NetSamples, b \in NetSamples :
        /\ pc' = "done"
        /\ fn' = "overlaps"
        /\ args' = [a |-> a, b |-> b]
        /\ result' = Value(overlaps(a, b))
        /\ UNCHANGED <<prefix_len, gen, vnet, candidates_tried, last_error, attempts>>

CallOverlapsAny ==
    /\ pc = "idle"
    /\ \E c \in PackVnets, used \in SeqsUpTo(PlanUsed, MaxUsed) :
        /\ pc' = "done"
        /\ fn' = "overlaps_any"
        /\ args' = [candidate |-> c, used |-> used]
        /\ result' = Value(overlaps_any(c, used))
        /\ UNCHANGED <<prefix_len, gen, vnet, candidates_tried, last_error, attempts>>

CallAllocateTwoSubnets ==
    /\ pc = "idle"
    /\ \E v \in PackVnets, w \in PackPrefixes, p \in PackPrefixes :
        /\ pc' = "done"
        /\ fn' = "allocate_two_subnets"
        /\ args' = [vnet |-> v, webapp_prefix_len |-> w, pe_prefix_len |-> p]
        /\ result' = allocate_two_subnets(v, w, p)
        /\ UNCHANGED <<prefix_len, gen, vnet, candidates_tried, last_error, attempts>>

\* build_plan: entry, up to the for statement on line 200
CallBuildPlan ==
    /\ pc = "idle"
    /\ \E used \in SeqsUpTo(PlanUsed, MaxUsed), base \in PlanBases,
       vp \in PlanVnetPrefixes, w \in SubnetPrefixes, p \in SubnetPrefixes :
        /\ pc' = "build_plan"
        /\ fn' = "build_plan"
        /\ args' = [used_prefixes |-> used, base |-> base, vnet_prefix_len |-> vp,
                    webapp_prefix_len |-> w, pe_prefix_len |-> p]
        /\ prefix_len' = vp
        /\ UNCHANGED <<gen, vnet, candidates_tried, last_error, attempts, result>>

\* the body of the loop of build_plan at one prefix_len (lines 201-215): the
\* Plan returned, or the exception raised
BuildPlanBody(used, base, plen, webapp_prefix_len, pe_prefix_len) ==
    LET ff == first_free_subnet(base, plen, used) IN
    IF IsError(ff) THEN ff
    ELSE LET al == allocate_two_subnets(ff.value, webapp_prefix_len, pe_prefix_len) IN
         IF IsError(al) THEN al
         ELSE Plan(ff.value, al.value[1], al.value[2])

\* build_plan: one pass of the loop on lines 200-215, or its end (line 217)
BuildPlanIter ==
    /\ pc = "build_plan"
    /\ UNCHANGED <<fn, args, gen, vnet, candidates_tried, last_error>>
    /\ IF prefix_len < args.base.prefixlen
       THEN /\ pc' = "done"
            /\ result' = Raise("RuntimeError", "Unable to allocate requested subnets in any available VNet size")
            /\ UNCHANGED <<prefix_len, attempts>>
       ELSE \E out \in {BuildPlanBody(args.used_prefixes, args.base, prefix_len,
                                      args.webapp_prefix_len, args.pe_prefix_len)} :
            /\ attempts' = Append(attempts, prefix_len)
            /\ IF IsError(out) /\ out.exc = "RuntimeError"
               THEN /\ prefix_len' = prefix_len - 1
                    /\ UNCHANGED <<pc, result>>
               ELSE /\ pc' = "done"
                    /\ result' = out
                    /\ UNCHANGED prefix_len

\* build_plan_with_rollover: entry, lines 291-298 (the generator is created,
\* its body has not run yet)
CallBuildPlanWithRollover ==
    /\ pc = "idle"
    /\ \E a \in RollCalls :
        /\ pc' = "rollover"
        /\ fn' = "build_plan_with_rollover"
        /\ args' = a
        /\ gen' = GenNew
        /\ candidates_tried' = 0
        /\ last_error' = NoResult
        /\ UNCHANGED <<prefix_len, vnet, attempts, result>>

\* the body of the loop of build_plan_with_rollover for one candidate (lines
\* 300-311): "overlaps" (skipped), the Plan returned, or the exception caught
RolloverBody(cand, used, webapp_prefix_len, pe_prefix_len) ==
    IF overlaps_any(cand, used) THEN [kind |-> "Overlaps"]
    ELSE LET al == allocate_two_subnets(cand, webapp_prefix_len, pe_prefix_len) IN
         IF IsError(al) THEN al
         ELSE Plan(cand, al.value[1], al.value[2])

\* build_plan_with_rollover: next(generator) and one pass of the loop body
\* (lines 294-311), or the end of the loop (lines 313-329)
RolloverIter ==
    /\ pc = "rollover"
    /\ UNCHANGED <<fn, args, prefix_len, attempts>>
    /\ \E nxt \in {GenNext(gen)} :
       IF IsError(nxt)
       THEN /\ pc' = "done"
            /\ result' = nxt
            /\ gen' = GenFinished
            /\ UNCHANGED <<vnet, candidates_tried, last_error>>
       ELSE IF nxt.kind = "StopIteration"
       THEN /\ pc' = "done"
            /\ result' = RolloverExhausted(args.used_prefixes, args.start_base, last_error)
            /\ gen' = GenFinished
            /\ UNCHANGED <<vnet, candidates_tried, last_error>>
       ELSE \E out \in {RolloverBody(nxt.cand, args.used_prefixes,
                                     args.webapp_prefix_len, args.pe_prefix_len)} :
            /\ gen' = nxt.gen
            /\ vnet' = nxt.cand
            /\ candidates_tried' = candidates_tried + 1
            /\ IF out.kind = "Overlaps"
               THEN UNCHANGED <<pc, result, last_error>>
               ELSE IF IsError(out)
               THEN /\ last_error' = out
                    /\ UNCHANGED <<pc, result>>
               ELSE /\ pc' = "done"
                    /\ result' = out
                    /\ UNCHANGED last_error

\* the caller takes the result; nothing of the call is kept
Return ==
    /\ pc = "done"
    /\ pc' = "idle"
    /\ fn' = "none"
    /\ args' = [none |-> TRUE]
    /\ prefix_len' = 0
    /\ gen' = GenNew
    /\ vnet' = NoNet
    /\ candidates_tried' = 0
    /\ last_error' = NoResult
    /\ attempts' = <<>>
    /\ result' = NoResult

Next ==
    \/ CallPrefixLenForTotalAddresses
    \/ CallSubnetPrefixLenForUsableIps
    \/ CallOverlaps
    \/ CallOverlapsAny
    \/ CallAllocateTwoSubnets
    \/ CallBuildPlan
    \/ BuildPlanIter
    \/ CallBuildPlanWithRollover
    \/ RolloverIter
    \/ Return

Spec == Init /\ [][Next]_vars

-----------------------------------------------------------------------------
(* Vocabulary of the properties: closed address intervals and error kinds *)

WPlus(a, b) == <<a[1] + b[1] + ((a[2] + b[2]) \div Half), (a[2] + b[2]) % Half>>

\* 2^(32 - len), the number of addresses of a range
RangeSize(len) == WShl1(MaxPrefixLen - len)

StartOf(net) == net.addr
EndOf(net) == WPred(WPlus(net.addr, RangeSize(net.prefixlen)))

\* max(startA, startB) <= min(endA, endB)
Intersects(a, b) == WLeq(WMax(StartOf(a), StartOf(b)), WMin(EndOf(a), EndOf(b)))

\* inner is fully contained in outer
Within(inner, outer) ==
    WLeq(StartOf(outer), StartOf(inner)) /\ WLeq(EndOf(inner), EndOf(outer))

IntersectsAny(net, used) == \E i \in 1 .. Len(used) : Intersects(net, used[i])

Done(name) == pc = "done" /\ fn = name

IsPlan(r) == r.kind = "Plan"

IsValue(r) == r.kind = "Value"

\* the error kind a raised exception stands for
ErrorKind(r) ==
    IF ~IsError(r) THEN "none"
    ELSE IF r.exc = "RuntimeError"
    THEN IF r.site = "an existing VNet address space covers all of the pool"
         THEN "PoolExhausted" ELSE "NoCapacity"
    ELSE IF r.site \in {"IP count must be a positive integer",
                        "Requested range is too large for IPv4",
                        "Invalid prefix computed"}
    THEN "InvalidSize"
    ELSE IF r.site \in {"Octet-based search requires --base to be a /16",
                        "Octet-based search supports only 10.x.0.0/16 or 172.16-31.0.0/16",
                        "Octet-based search requires --vnet-prefix to be /24 or smaller",
                        "--base is not within the allowed pool"}
    THEN "UnsupportedRange"
    ELSE "ValueError"

-----------------------------------------------------------------------------
(* C7 *)

InIPv4Space(n) == WLeq(<<0, 1>>, n) /\ WLeq(n, RangeSize(0))

\* C7: for every totalAddresses in 1 .. 2^32, prefix_len_for_total_addresses
\* returns a prefix length p in 0 .. 32 such that 2^(32-p) is the smallest power
\* of two that is >= totalAddresses; and no smaller totalAddresses gets a larger
\* range (a numerically smaller p).
C7_SmallestPowerOfTwo ==
    (Done("prefix_len_for_total_addresses") /\ InIPv4Space(args.total_addresses)) =>
        /\ IsValue(result)
        /\ result.value \in 0 .. MaxPrefixLen
        /\ WLeq(args.total_addresses, RangeSize(result.value))
        /\ result.value < MaxPrefixLen =>
               WLess(RangeSize(result.value + 1), args.total_addresses)
        /\ \A m \in TotalSamples :
               (InIPv4Space(m) /\ WLeq(m, args.total_addresses)) =>
                   /\ IsValue(prefix_len_for_total_addresses(m))
                   /\ prefix_len_for_total_addresses(m).value >= result.value

\* 2^31 + 1 addresses need the whole IPv4 space
C7_Witness ==
    /\ Done("prefix_len_for_total_addresses")
    /\ args.total_addresses = WAdd(WShl1(31), 1)
    /\ result = Value(0)

-----------------------------------------------------------------------------
(* C8 *)

\* C8: subnet_prefix_len_for_usable_ips returns
\* prefix_len_for_total_addresses(usableHosts + 5) for every positive usableHosts
\* with usableHosts + 5 <= 2^32, and fails with InvalidSize for every other
\* usableHosts (zero and negative counts included).
C8_UsableHostsChecked ==
    Done("subnet_prefix_len_for_usable_ips") =>
        LET u == args.usable_ips IN
        IF WLess(<<0, 0>>, u) /\ WLeq(WAdd(u, 5), RangeSize(0))
        THEN /\ IsValue(result)
             /\ result = prefix_len_for_total_addresses(WAdd(u, 5))
        ELSE ErrorKind(result) = "InvalidSize"

-----------------------------------------------------------------------------
(* C9 *)

\* C9: overlaps(A, B) is true exactly when the closed address intervals of A and
\* B intersect; it is symmetric and reflexive; overlaps_any(candidate, used) is
\* true exactly when overlaps(candidate, u) holds for at least one member u.
C9_OverlapIsIntersection ==
    /\ Done("overlaps") =>
           /\ result.value = Intersects(args.a, args.b)
           /\ result.value = overlaps(args.b, args.a)
           /\ overlaps(args.a, args.a)
    /\ Done("overlaps_any") =>
           result.value = (\E i \in 1 .. Len(args.used) :
                               overlaps(args.candidate, args.used[i]))

\* a range and a strictly smaller range inside it, which is not at its start
C9_Witness ==
    /\ Done("overlaps")
    /\ args.a.prefixlen < args.b.prefixlen
    /\ StartOf(args.a) # StartOf(args.b)
    /\ EndOf(args.a) # EndOf(args.b)
    /\ result.value = TRUE

-----------------------------------------------------------------------------
(* C1 *)

FromAllocator == fn \in {"build_plan", "build_plan_with_rollover"}

\* C1: whenever build_plan or build_plan_with_rollover returns a Plan, the
\* Plan's network overlaps no member of the used list passed to that call.
C1_NetworkAvoidsUsed ==
    (pc = "done" /\ FromAllocator /\ IsPlan(result)) =>
        ~IntersectsAny(result.vnet, args.used_prefixes)

\* build_plan returned a network that is not the lowest one of its size in the
\* base, because a used range covers the lowest one
C1_Witness ==
    /\ Done("build_plan")
    /\ IsPlan(result)
    /\ StartOf(result.vnet) # StartOf(args.base)
    /\ IntersectsAny([addr |-> StartOf(args.base), prefixlen |-> result.vnet.prefixlen],
                     args.used_prefixes)

-----------------------------------------------------------------------------
(* C2 *)

\* C2: in every Plan returned by either allocator both subnets are fully
\* contained in the network, they do not overlap each other, and each has
\* exactly the prefix length requested for it.
C2_SubnetsInsideAndDisjoint ==
    (pc = "done" /\ FromAllocator /\ IsPlan(result)) =>
        /\ Within(result.webapp_subnet, result.vnet)
        /\ Within(result.private_endpoint_subnet, result.vnet)
        /\ ~Intersects(result.webapp_subnet, result.private_endpoint_subnet)
        /\ result.webapp_subnet.prefixlen = args.webapp_prefix_len
        /\ result.private_endpoint_subnet.prefixlen = args.pe_prefix_len

\* a Plan of the octet search with subnets of different sizes
C2_Witness ==
    /\ Done("build_plan_with_rollover")
    /\ IsPlan(result)
    /\ args.webapp_prefix_len > args.pe_prefix_len

-----------------------------------------------------------------------------
(* C10 *)

\* the sub-ranges of parent at prefix length len that start below net
LowerSubranges(parent, len, net) ==
    {s \in {SubnetAt(parent, len, k) : k \in 0 .. SubnetsCount(parent, len) - 1} :
        WLess(StartOf(s), StartOf(net))}

\* C10: when allocate_two_subnets succeeds, the range of prefix length
\* min(lenA, lenB) starts at parent's base address, the other one is the lowest
\* sub-range of parent at max(lenA, lenB) that does not overlap it, rangeA is the
\* first of the two iff min(lenA, lenB) = lenA, and for lenA = lenB rangeB lies
\* immediately above rangeA.  build_plan with a /16 base, no used ranges, VNet
\* prefix 24 and two /27 subnets returns the lowest /24 of the base, its lowest
\* /27 as webapp_subnet and the next /27 as private_endpoint_subnet.
C10_LowestSiblings ==
    /\ (Done("allocate_two_subnets") /\ IsValue(result)) =>
           LET parent == args.vnet
               lenA == args.webapp_prefix_len
               lenB == args.pe_prefix_len
               first == IF Min(lenA, lenB) = lenA THEN result.value[1] ELSE result.value[2]
               second == IF Min(lenA, lenB) = lenA THEN result.value[2] ELSE result.value[1] IN
           /\ first = [addr |-> StartOf(parent), prefixlen |-> Min(lenA, lenB)]
           /\ second.prefixlen = Max(lenA, lenB)
           /\ Within(second, parent)
           /\ MaskAddr(second.addr, second.prefixlen) = second.addr
           /\ ~Intersects(second, first)
           /\ \A s \in LowerSubranges(parent, second.prefixlen, second) :
                  Intersects(s, first)
           /\ lenA = lenB => StartOf(second) = WAdd(EndOf(first), 1)
    /\ (/\ Done("build_plan")
        /\ args.base.prefixlen = 16
        /\ args.used_prefixes = <<>>
        /\ args.vnet_prefix_len = 24
        /\ args.webapp_prefix_len = 27
        /\ args.pe_prefix_len = 27) =>
           result = Plan([addr |-> StartOf(args.base), prefixlen |-> 24],
                         [addr |-> StartOf(args.base), prefixlen |-> 27],
                         [addr |-> WAdd(StartOf(args.base), 32), prefixlen |-> 27])

\* rangeA is the smaller range, so it is the second of the two
C10_Witness ==
    /\ Done("allocate_two_subnets")
    /\ IsValue(result)
    /\ args.webapp_prefix_len > args.pe_prefix_len
    /\ args.pe_prefix_len > args.vnet.prefixlen
    /\ StartOf(result.value[1]) # StartOf(args.vnet)

-----------------------------------------------------------------------------
(* C3 *)

\* at prefix length p a free range is found in the base and it can be packed
SizeWorks(p) ==
    /\ IsValue(first_free_subnet(args.base, p, args.used_prefixes))
    /\ IsValue(allocate_two_subnets(
                   first_free_subnet(args.base, p, args.used_prefixes).value,
                   args.webapp_prefix_len, args.pe_prefix_len))

WorkingSizes ==
    {p \in args.base.prefixlen .. args.vnet_prefix_len : SizeWorks(p)}

\* C3: build_plan tries p = vnet_prefix_len, vnet_prefix_len - 1, ...,
\* base.prefixlen in that order; a p at which no free range is found, or at which
\* the found range cannot be packed for any reason (a requested subnet larger
\* than the found range included), is passed over; the Plan of the first p at
\* which both steps succeed is returned, and the call fails with NoCapacity only
\* when no p works.
C3_ExpandsUntilPacked ==
    Done("build_plan") =>
        IF WorkingSizes = {}
        THEN ErrorKind(result) = "NoCapacity"
        ELSE /\ IsPlan(result)
             /\ result.vnet.prefixlen \in WorkingSizes
             /\ \A p \in WorkingSizes : p <= result.vnet.prefixlen
             /\ attempts = [i \in 1 .. (args.vnet_prefix_len - result.vnet.prefixlen + 1) |->
                               args.vnet_prefix_len + 1 - i]

-----------------------------------------------------------------------------
(* C4 *)

ThirdOctet(net) == net.addr[2] \div 256

\* the pool the first octet of a range names
PoolOf(net) == IF FirstOctet(net) = 10 THEN Net(10, 0, 0, 0, 8) ELSE Net(172, 16, 0, 0, 12)

\* the /24 blocks from the starting position up to the block of net, in the
\* order (second octet, third octet)
BlocksUpTo(net) ==
    {st \in (SecondOctet(args.start_base) .. SecondOctet(net)) \X (0 .. 255) :
        /\ st[1] = SecondOctet(args.start_base) => st[2] >= args.start_third_octet
        /\ st[1] = SecondOctet(net) => st[2] <= ThirdOctet(net)}

\* the candidates of the search that come before net in its order
CandidatesBefore(net) ==
    {c \in UNION {{[addr |-> <<FirstOctet(args.start_base) * 256 + st[1],
                               st[2] * 256 + j * 2^(32 - args.vnet_prefix_len)>>,
                    prefixlen |-> args.vnet_prefix_len] :
                      j \in 0 .. 2^(args.vnet_prefix_len - 24) - 1} :
                  st \in BlocksUpTo(net)} :
        WLess(StartOf(c), StartOf(net))}

Packs(net) ==
    IsValue(allocate_two_subnets(net, args.webapp_prefix_len, args.pe_prefix_len))

\* the place of net among the candidates, counted from the starting position
PlaceInOrder(net) ==
    ((SecondOctet(net) - SecondOctet(args.start_base)) * 256
        + ThirdOctet(net) - args.start_third_octet) * 2^(args.vnet_prefix_len - 24)
    + ((net.addr[2] % 256) \div 2^(32 - args.vnet_prefix_len)) + 1

\* C4: build_plan_with_rollover examines the /24 blocks (second octet, third
\* octet) from (second octet of start_base, start_third_octet) on, third octet
\* first, and inside one block the sub-ranges of the VNet prefix length in
\* increasing address order.  The candidate examined n-th is the n-th of that
\* order; the network of the Plan is the earliest candidate of that order that
\* overlaps no used range and can be packed; it is not before the starting
\* position and not outside the pool.
C4_EarliestCandidateInOrder ==
    /\ (fn = "build_plan_with_rollover" /\ candidates_tried > 0) =>
           /\ vnet.prefixlen = args.vnet_prefix_len
           /\ FirstOctet(vnet) = FirstOctet(args.start_base)
           /\ MaskAddr(vnet.addr, vnet.prefixlen) = vnet.addr
           /\ WLeq(<<args.start_base.addr[1], args.start_third_octet * 256>>, StartOf(vnet))
           /\ Within(vnet, PoolOf(args.start_base))
           /\ candidates_tried = PlaceInOrder(vnet)
    /\ (Done("build_plan_with_rollover") /\ IsPlan(result)) =>
           /\ result.vnet = vnet
           /\ ~IntersectsAny(vnet, args.used_prefixes)
           /\ Packs(vnet)
           /\ Cardinality(CandidatesBefore(vnet)) + 1 = candidates_tried
           /\ \A c \in CandidatesBefore(vnet) :
                  IntersectsAny(c, args.used_prefixes) \/ ~Packs(c)

\* the Plan lies in the second octet after the one the search started in
C4_Witness ==
    /\ Done("build_plan_with_rollover")
    /\ IsPlan(result)
    /\ SecondOctet(result.vnet) = SecondOctet(args.start_base) + 1
    /\ candidates_tried > 1

-----------------------------------------------------------------------------
(* C5 *)

ValidRolloverArgs ==
    /\ args.start_base.prefixlen = 16
    /\ \/ FirstOctet(args.start_base) = 10
       \/ FirstOctet(args.start_base) = 172 /\ SecondOctet(args.start_base) \in 16 .. 31
    /\ args.vnet_prefix_len >= 24
    /\ args.start_third_octet \in 0 .. 255

PoolCovered ==
    \E i \in 1 .. Len(args.used_prefixes) :
        Within(PoolOf(args.start_base), args.used_prefixes[i])

\* C5: when build_plan_with_rollover exhausts its candidates without a Plan, it
\* fails with PoolExhausted if and only if some single member of the used list
\* contains the entire pool of start_base, and with NoCapacity otherwise; when
\* one used range contains the pool, the call returns no Plan and reports no
\* NoCapacity.
C5_PoolExhaustedIffCovered ==
    (Done("build_plan_with_rollover") /\ ValidRolloverArgs) =>
        /\ IsPlan(result) \/ ErrorKind(result) \in {"PoolExhausted", "NoCapacity"}
        /\ ErrorKind(result) = "PoolExhausted" <=> PoolCovered
        /\ (~IsPlan(result) /\ ~PoolCovered) => ErrorKind(result) = "NoCapacity"

\* the pool is strictly inside one used range, and every candidate was examined
C5_Witness ==
    /\ Done("build_plan_with_rollover")
    /\ ErrorKind(result) = "PoolExhausted"
    /\ candidates_tried > 0
    /\ \A i \in 1 .. Len(args.used_prefixes) :
           args.used_prefixes[i] # PoolOf(args.start_base)

-----------------------------------------------------------------------------
(* C6 *)

SupportedBase ==
    /\ args.start_base.prefixlen = 16
    /\ \/ FirstOctet(args.start_base) = 10
       \/ FirstOctet(args.start_base) = 172 /\ SecondOctet(args.start_base) \in 16 .. 31

\* C6: build_plan_with_rollover fails with UnsupportedRange, and returns no Plan,
\* when start_base is not a /16 inside one of the two pools or when the VNet
\* prefix length is less than 24; no candidate is examined before it fails.
C6_UnsupportedRangeFirst ==
    (fn = "build_plan_with_rollover" /\ (~SupportedBase \/ args.vnet_prefix_len < 24)) =>
        /\ candidates_tried = 0
        /\ vnet = NoNet
        /\ pc = "done" => ErrorKind(result) = "UnsupportedRange"

\* a /8 base, which is a pool but not a /16
C6_Witness ==
    /\ Done("build_plan_with_rollover")
    /\ args.start_base = Net(10, 0, 0, 0, 8)
    /\ args.vnet_prefix_len = 24
    /\ ErrorKind(result) = "UnsupportedRange"

-----------------------------------------------------------------------------
(* C11 *)

\* the fallbacks of build_plan are used up: every size from vnet_prefix_len
\* down to base.prefixlen was attempted
AllSizesAttempted ==
    attempts = [i \in 1 .. Max(0, args.vnet_prefix_len - args.base.prefixlen + 1) |->
                   args.vnet_prefix_len + 1 - i]

\* the fallbacks of the rollover are used up: the candidate examined last ends
\* where the pool ends
AllCandidatesExamined ==
    /\ gen = GenFinished
    /\ EndOf(vnet) = EndOf(PoolOf(args.start_base))

\* C11: allocate_two_subnets fails with the one error kind NoCapacity both when
\* webapp_prefix_len or pe_prefix_len is numerically smaller than the prefix
\* length of the VNet and when no second range free of the first exists; the
\* failure is recovered from by the calling allocator, so that build_plan
\* surfaces an error only after every size was attempted, and
\* build_plan_with_rollover surfaces a packing failure only after every
\* candidate up to the end of the pool was examined.
C11_PackingFailureIsNoCapacity ==
    /\ (/\ Done("allocate_two_subnets")
        /\ IsError(result)
        /\ args.webapp_prefix_len <= MaxPrefixLen
        /\ args.pe_prefix_len <= MaxPrefixLen)
       => ErrorKind(result) = "NoCapacity"
    /\ (Done("build_plan") /\ IsError(result))
       => ErrorKind(result) = "NoCapacity" /\ AllSizesAttempted
    /\ (Done("build_plan_with_rollover") /\ IsError(result) /\ last_error # NoResult)
       => ErrorKind(result) \in {"NoCapacity", "PoolExhausted"} /\ AllCandidatesExamined

-----------------------------------------------------------------------------
(* C12 *)

\* A call that has started runs on: the interpreter takes the next pass of the
\* for loop it is in (lines 200 and 300).  This is weak fairness of the two
\* loop actions, with ENABLED <<BuildPlanIter>>_vars written as the guard
\* pc = "build_plan" and ENABLED <<RolloverIter>>_vars as pc = "rollover": each
\* action has a successor in every state of its guard, and it changes pc,
\* attempts or candidates_tried.
FairSpec ==
    /\ Spec
    /\ []<>(pc # "build_plan") \/ []<><<BuildPlanIter>>_vars
    /\ []<>(pc # "rollover") \/ []<><<RolloverIter>>_vars

\* vnet_prefix_len - base.prefixlen + 1
MaxSizeAttempts == Max(0, args.vnet_prefix_len - args.base.prefixlen + 1)

\* the second octet the pool of start_base ends with
LastSecondOctet == IF FirstOctet(args.start_base) = 10 THEN 255 ELSE 31

\* the number of /24 blocks from the starting position to the upper bound of
\* the pool
BlocksFromStart ==
    (256 - args.start_third_octet)
    + (LastSecondOctet - SecondOctet(args.start_base)) * 256

\* (number of /24 blocks) x 2^(vnet_prefix_len - 24); none when the arguments
\* are rejected
MaxCandidates ==
    IF ValidRolloverArgs
    THEN BlocksFromStart * 2^(args.vnet_prefix_len - 24)
    ELSE 0

InLoop == pc \in {"build_plan", "rollover"}

\* one more candidate is examined
ExaminesCandidate == pc = "rollover" /\ candidates_tried' = candidates_tried + 1

\* one more size is attempted
AttemptsSize == pc = "build_plan" /\ attempts' # attempts

\* a candidate lies above every candidate examined before it, so none is
\* examined twice; the first one is the starting position of this call
EachCandidateOnce ==
    ExaminesCandidate =>
        IF candidates_tried = 0
        THEN StartOf(vnet') = StartOf(Bucket(FirstOctet(args.start_base),
                                             SecondOctet(args.start_base),
                                             args.start_third_octet))
        ELSE WLess(EndOf(vnet), StartOf(vnet'))

\* a size is one less than the size attempted before it; the first one is
\* vnet_prefix_len of this call
EachSizeOnce ==
    AttemptsSize =>
        /\ Len(attempts') = Len(attempts) + 1
        /\ attempts'[Len(attempts')] = args.vnet_prefix_len - Len(attempts)

\* a call starts with nothing of an earlier call
NoCursorRetained ==
    (pc = "idle" /\ pc' # "idle") =>
        /\ attempts = <<>> /\ attempts' = <<>>
        /\ candidates_tried = 0 /\ candidates_tried' = 0
        /\ gen = GenNew /\ gen' = GenNew
        /\ last_error = NoResult /\ last_error' = NoResult
        /\ vnet = NoNet /\ vnet' = NoNet

\* C12: every call of build_plan and of build_plan_with_rollover ends, with a
\* Plan or with an error; build_plan attempts at most
\* vnet_prefix_len - base.prefixlen + 1 sizes; build_plan_with_rollover examines
\* at most (number of /24 blocks from the starting position to the upper bound
\* of the pool) x 2^(vnet_prefix_len - 24) candidates, each of them once; and no
\* position of an earlier call is kept.
C12_CallsEndWithinBounds ==
    /\ [](fn = "build_plan" => Len(attempts) <= MaxSizeAttempts)
    /\ [](fn = "build_plan_with_rollover" => candidates_tried <= MaxCandidates)
    /\ [][EachCandidateOnce /\ EachSizeOnce /\ NoCursorRetained]_vars
    /\ InLoop ~> (pc = "done" /\ (IsPlan(result) \/ IsError(result)))

\* a search that examined every candidate its bound allows, across two second
\* octets
C12_Witness ==
    /\ Done("build_plan_with_rollover")
    /\ IsError(result)
    /\ candidates_tried = MaxCandidates
    /\ MaxCandidates > 512

-----------------------------------------------------------------------------
(* C13 *)

\* of the pair returned by allocate_two_subnets, the range allocated second
SecondRange(r, webapp_prefix_len, pe_prefix_len) ==
    IF webapp_prefix_len <= pe_prefix_len THEN r.value[2] ELSE r.value[1]

\* lenA and lenB are in p .. 32
SizesWithin(p) ==
    /\ args.webapp_prefix_len \in p .. MaxPrefixLen
    /\ args.pe_prefix_len \in p .. MaxPrefixLen

MinSize == Min(args.webapp_prefix_len, args.pe_prefix_len)

\* the range build_plan finds at prefix length p
Candidate(p) == first_free_subnet(args.base, p, args.used_prefixes)

\* the range c, found by build_plan, cannot be packed
Unpacked(c) ==
    /\ IsValue(c)
    /\ IsError(allocate_two_subnets(c.value, args.webapp_prefix_len, args.pe_prefix_len))

\* at prefix length p build_plan finds a free range and cannot pack it
PackingFails(p) == Unpacked(Candidate(p))

\* the size attempted last, p, when the attempt failed: a packing failure
\* happens only with a requested subnet at least as large as the range found
\* (none happens with both subnets smaller), and for sizes in p .. 32 it is the
\* failure build_plan goes on from, to p - 1
LastAttemptFailsOnlyWhenFull ==
    LET p == attempts[Len(attempts)] IN
    /\ (MinSize > p /\ (pc = "build_plan" \/ IsError(result))) => ~PackingFails(p)
    /\ pc = "build_plan" => prefix_len = p - 1
    /\ (IsError(result) /\ ErrorKind(result) # "NoCapacity") => MinSize < p

\* the size attempted before the last one, p + 1, with a requested subnet as
\* large as the range found there: after that packing failure a free range
\* found at p is packed, and its Plan is returned
StepLargerPacks ==
    LET p == attempts[Len(attempts)] IN
    (MinSize = p + 1 /\ SizesWithin(p + 1) /\ PackingFails(p + 1)) =>
        \/ pc = "done" /\ IsPlan(result) /\ result.vnet.prefixlen = p
        \/ ~IsValue(Candidate(p))

\* C13: for webapp_prefix_len and pe_prefix_len in vnet.prefixlen .. 32,
\* allocate_two_subnets succeeds if and only if the smaller of the two is
\* strictly greater than vnet.prefixlen, and then the range allocated second
\* starts at the VNet's base address plus the size of the range allocated
\* first.  Hence in build_plan a packing failure at size p happens only when a
\* requested subnet is at least as large as the range found (exactly as large,
\* for prefix lengths in p .. 32); build_plan then goes on to p - 1, and a free
\* range found there is packed and returned.
C13_PacksIffStrictlySmaller ==
    /\ (Done("allocate_two_subnets") /\ SizesWithin(args.vnet.prefixlen))
       => /\ IsValue(result) <=> MinSize > args.vnet.prefixlen
          /\ IsValue(result)
             => StartOf(SecondRange(result, args.webapp_prefix_len, args.pe_prefix_len))
                = WPlus(StartOf(args.vnet), RangeSize(MinSize))
    /\ (fn = "build_plan" /\ Len(attempts) >= 1) => LastAttemptFailsOnlyWhenFull
    /\ (fn = "build_plan" /\ Len(attempts) >= 2) => StepLargerPacks

\* build_plan could not pack the range it found at vnet_prefix_len, one
\* requested subnet being as large as that range, and returned the Plan of the
\* range one prefix step larger
C13_Witness ==
    /\ Done("build_plan")
    /\ IsPlan(result)
    /\ Len(attempts) = 2
    /\ PackingFails(attempts[1])
    /\ MinSize = attempts[1]
    /\ result.vnet.prefixlen = attempts[1] - 1
    /\ args.used_prefixes # <<>>

====
